---------------------------- MODULE Spec2Model ----------------------------
(***************************************************************************)
(* Model of ansiblelint.runner.Runner (lib/ansiblelint/runner.py).         *)
(*                                                                         *)
(* Strings are modelled as sequences of tokens: a path "/x/t" is           *)
(* <<"/", "x", "/", "t">>, a process stream is a sequence of text pieces.  *)
(* startswith / endswith / concatenation / regular-expression search work  *)
(* on those tokens.  An Optional value is a sequence of length 0 (None) or *)
(* 1 (the value).                                                          *)
(***************************************************************************)
EXTENDS Integers, Sequences, FiniteSets, Bags, TLC

\* ------------------------------------------------------------------------
\* Bounds of the model
\* ------------------------------------------------------------------------

\* number of run() calls made, all Runner instances together
MaxRuns == 2

\* the history counts up to AskedMax calls of find_children for one task
AskedMax == 2

\* ------------------------------------------------------------------------
\* Strings
\* ------------------------------------------------------------------------

None == <<>>

Some(v) == <<v>>

StartsWith(s, p) == Len(p) <= Len(s) /\ SubSeq(s, 1, Len(p)) = p

EndsWith(s, p) == Len(p) <= Len(s) /\ SubSeq(s, Len(s) - Len(p) + 1, Len(s)) = p

Drop(s, n) == SubSeq(s, n + 1, Len(s))

Range(s) == {s[i] : i \in 1..Len(s)}

\* the tokens, in the order str.__lt__ gives them
Alphabet ==
    << "\n", "ESC", "': line ", ", column ", ".", "/",
       "0", "1", "2", "3", "4", "5", "6", "7", "8", "9",
       "Ansible --syntax-check reported unexpected error code ",
       "ERROR! ", "Failed to load or parse file",
       "The error appears to be in '", "[WARNING]", "a", "finding", "junk",
       "main.yml", "meta", "r", "t", "title", "x", "~" >>

TokRank(c) == CHOOSE i \in 1..Len(Alphabet) : Alphabet[i] = c

RECURSIVE StrLess(_, _)
StrLess(s, t) ==
    IF t = <<>> THEN FALSE
    ELSE IF s = <<>> THEN TRUE
    ELSE IF Head(s) = Head(t) THEN StrLess(Tail(s), Tail(t))
    ELSE TokRank(Head(s)) < TokRank(Head(t))

\* ------------------------------------------------------------------------
\* Paths (os.path and ansiblelint.file_utils), current directory "/"
\* ------------------------------------------------------------------------

\* ansiblelint.file_utils.normpath: os.path.relpath(str(path))
RECURSIVE normpath(_)
normpath(p) ==
    IF StartsWith(p, <<".", "/">>) THEN normpath(Drop(p, 2))
    ELSE IF StartsWith(p, <<"/">>) THEN normpath(Drop(p, 1))
    ELSE IF Len(p) > 1 /\ EndsWith(p, <<"/">>) THEN SubSeq(p, 1, Len(p) - 1)
    ELSE p

abspath(p) == <<"/">> \o normpath(p)

\* os.path.dirname: what precedes the last "/", without its trailing "/"
dirname(p) ==
    LET slashes == {i \in 1..Len(p) : p[i] = "/"}
    IN  IF slashes = {} THEN <<>>
        ELSE LET i == CHOOSE j \in slashes : \A k \in slashes : k <= j
             IN  IF i = 1 THEN <<"/">> ELSE SubSeq(p, 1, i - 1)

\* os.path.join(playbook, '')
JoinEmpty(p) == IF EndsWith(p, <<"/">>) THEN p ELSE p \o <<"/">>

HomeDir == <<"/", "x">>

\* ansiblelint.file_utils.expand_paths_vars: expanduser on every pattern
expand_paths_vars(paths) ==
    [i \in 1..Len(paths) |->
        IF StartsWith(paths[i], <<"~">>) THEN HomeDir \o Drop(paths[i], 1)
        ELSE paths[i]]

MetaSuffix == <<"meta", "/", "main.yml">>

\* ------------------------------------------------------------------------
\* Diagnostics (ansiblelint.errors.MatchError)
\* ------------------------------------------------------------------------

MatchError(message, filename, linenumber, column, rule, details) ==
    [message |-> message, filename |-> filename, linenumber |-> linenumber,
     column |-> column, rule |-> rule, details |-> details]

RuleId(rule) ==
    CASE rule = "AnsibleSyntaxCheckRule" -> 911
      [] rule = "LoadingFailureRule" -> 901
      [] rule = "RuntimeErrorRule" -> 999
      [] OTHER -> 101

\* None sorts first
OptStrLess(a, b) ==
    IF b = None THEN FALSE
    ELSE IF a = None THEN TRUE
    ELSE StrLess(a[1], b[1])

OptIntLess(a, b) ==
    IF b = None THEN FALSE
    ELSE IF a = None THEN TRUE
    ELSE a[1] < b[1]

\* order by (filename, line, column, rule identifier, message)
MatchErrorLess(d, e) ==
    IF d.filename # e.filename THEN OptStrLess(d.filename, e.filename)
    ELSE IF d.linenumber # e.linenumber THEN d.linenumber < e.linenumber
    ELSE IF d.column # e.column THEN OptIntLess(d.column, e.column)
    ELSE IF RuleId(d.rule) # RuleId(e.rule) THEN RuleId(d.rule) < RuleId(e.rule)
    ELSE OptStrLess(d.message, e.message)

\* a Python set is a bag in which every element has one copy
ToSet(B) == SetToBag(BagToSet(B))

\* the union is computed and not kept: matches.union(...) as a statement
union_Discarded(B, C) == B

\* the results are appended to a list
union_Concatenated(B, C) == B (+) C

\* set.union
union(B, C) == ToSet(B (+) C)

\* list(matches): the elements in the iteration order of the set
sorted_Unsorted(B) ==
    LET S == BagToSet(B)
    IN  {s \in [1..Cardinality(S) -> S] : \A i, j \in 1..Cardinality(S) : i # j => s[i] # s[j]}

\* sorted(matches): a stable sort of the set's iteration order, which is
\* arbitrary, so elements the order does not separate come out in any order
RECURSIVE sorted(_)
sorted(B) ==
    IF BagToSet(B) = {} THEN {<<>>}
    ELSE LET S == BagToSet(B)
             least == {m \in S : \A o \in S : ~MatchErrorLess(o, m)}
         IN  UNION {{<<m>> \o s : s \in sorted(B (-) SetToBag({m}))} : m \in least}

\* ------------------------------------------------------------------------
\* Syntax-check parser
\* ------------------------------------------------------------------------

CompletedProcess(returncode, stdout, stderr) ==
    [returncode |-> returncode, stdout |-> stdout, stderr |-> stderr]

\* ansiblelint.text.strip_ansi_escape
strip_ansi_escape(s) == SelectSeq(s, LAMBDA c : c # "ESC")

DigitTokens == <<"0", "1", "2", "3", "4", "5", "6", "7", "8", "9">>

IsDigit(c) == \E i \in 1..Len(DigitTokens) : DigitTokens[i] = c

DigitValue(c) == (CHOOSE i \in 1..Len(DigitTokens) : DigitTokens[i] = c) - 1

\* int(): the value of a string of digits
RECURSIVE int(_)
int(s) == IF s = <<>> THEN 0 ELSE 10 * int(SubSeq(s, 1, Len(s) - 1)) + DigitValue(s[Len(s)])

\* str() of a small non-negative integer
RECURSIVE str(_)
str(n) == IF n < 10 THEN <<DigitTokens[n + 1]>> ELSE str(n \div 10) \o <<DigitTokens[(n % 10) + 1]>>

\* the end of the longest run of digits that starts at position i (i - 1 if none)
RECURSIVE DigitsEnd(_, _)
DigitsEnd(s, i) == IF i <= Len(s) /\ IsDigit(s[i]) THEN DigitsEnd(s, i + 1) ELSE i - 1

\* "': line (\d+), column (\d+)" matches at position k
LineColumnAt(s, k) ==
    /\ k <= Len(s)
    /\ s[k] = "': line "
    /\ DigitsEnd(s, k + 1) >= k + 1
    /\ DigitsEnd(s, k + 1) + 1 <= Len(s)
    /\ s[DigitsEnd(s, k + 1) + 1] = ", column "
    /\ DigitsEnd(s, DigitsEnd(s, k + 1) + 2) >= DigitsEnd(s, k + 1) + 2

\* the position of the first "\n" at or after i (Len(s) + 1 if none)
RECURSIVE LineEnd(_, _)
LineEnd(s, i) == IF i > Len(s) \/ s[i] = "\n" THEN i ELSE LineEnd(s, i + 1)

\* the places where _ansible_syntax_check_re can match when it starts at i:
\* "^ERROR! " at a line start, the rest of the line, an empty line, the
\* reference, with (?P<filename>.*) running over any text, newlines included
MatchEnds(s, i) ==
    IF /\ i <= Len(s)
       /\ s[i] = "ERROR! "
       /\ (i = 1 \/ s[i - 1] = "\n")
       /\ LineEnd(s, i + 1) + 2 <= Len(s)
       /\ s[LineEnd(s, i + 1) + 1] = "\n"
       /\ s[LineEnd(s, i + 1) + 2] = "The error appears to be in '"
    THEN {k \in (LineEnd(s, i + 1) + 3)..Len(s) : LineColumnAt(s, k)}
    ELSE {}

\* _ansible_syntax_check_re.search(stderr): the leftmost match, and in it the
\* longest filename; None when nothing matches
ReSearch(s) ==
    LET starts == {i \in 1..Len(s) : MatchEnds(s, i) # {}}
    IN  IF starts = {} THEN None
        ELSE LET i == CHOOSE j \in starts : \A o \in starts : j <= o
                 e == LineEnd(s, i + 1)
                 k == CHOOSE j \in MatchEnds(s, i) : \A o \in MatchEnds(s, i) : o <= j
                 l == DigitsEnd(s, k + 1)
             IN  Some([title |-> SubSeq(s, i + 1, e - 1),
                       filename |-> SubSeq(s, e + 3, k - 1),
                       line |-> SubSeq(s, k + 1, l),
                       column |-> SubSeq(s, l + 2, DigitsEnd(s, l + 2))])

UnexpectedErrorCode == <<"Ansible --syntax-check reported unexpected error code ">>

\* every failure is classified as a syntax error
SyntaxCheckRule_Always(returncode) == "AnsibleSyntaxCheckRule"

\* lines 189-192: the rule of the MatchError
SyntaxCheckRule(returncode) ==
    IF returncode = 4 THEN "AnsibleSyntaxCheckRule" ELSE "RuntimeErrorRule"

\* the message is synthesized for every exit code other than 4
Message_AlwaysSynthesized(returncode, captured) ==
    IF returncode # 4 THEN Some(UnexpectedErrorCode \o str(returncode)) ELSE captured

\* lines 193-196: "if not message" is true for None and for the empty string
Message(returncode, captured) ==
    IF returncode # 4 /\ (captured = None \/ captured = Some(<<>>))
    THEN Some(UnexpectedErrorCode \o str(returncode))
    ELSE captured

\* a MatchError is appended only when stderr has the expected format
_parse_ansible_syntax_check_OnlyMatched(run) ==
    IF run.returncode # 0 /\ ReSearch(strip_ansi_escape(run.stderr)) # None
    THEN <<MatchError(None, None, 0, None, SyntaxCheckRule(run.returncode), run.stderr)>>
    ELSE <<>>

\* Runner._parse_ansible_syntax_check
_parse_ansible_syntax_check(run) ==
    IF run.returncode # 0
    THEN LET stderr == strip_ansi_escape(run.stderr)
             stdout == strip_ansi_escape(run.stdout)
             details == IF stderr # <<>>
                        THEN (IF stdout # <<>> THEN stderr \o <<"\n">> \o stdout ELSE stderr)
                        ELSE stdout
             m == ReSearch(stderr)
             message0 == IF m # None THEN Some(m[1].title) ELSE None
             filename == IF m # None THEN Some(m[1].filename) ELSE None
             linenumber == IF m # None THEN int(m[1].line) ELSE 0
             column == IF m # None THEN Some(int(m[1].column)) ELSE None
             rule == SyntaxCheckRule(run.returncode)
             message == Message(run.returncode, message0)
         IN  <<MatchError(message, filename, linenumber, column, rule, details)>>
    ELSE <<>>

\* the test of test/test_runner.py
SYNTAX_CHECK_STDERR ==
    << "[WARNING]", "\n", "[WARNING]", "\n",
       "ERROR! ", "title", "\n", "\n",
       "The error appears to be in '", "/", "a", "': line ", "4", "7",
       ", column ", "7", "junk", "\n", "junk", "\n" >>

\* the reference to the place of the error
Reference(filename, line, column) ==
    <<"The error appears to be in '">> \o filename \o <<"': line ">> \o line
        \o <<", column ">> \o column

\* stderr in the format of ansible-playbook: the lines before the error,
\* "ERROR! <title>", an empty line, the reference, and what follows it
Documented(before, title, filename, line, column, trailing) ==
    before \o <<"ERROR! ">> \o title \o <<"\n", "\n">>
        \o Reference(filename, line, column) \o trailing

\* the pieces the streams of a syntax check are made of
Befores == { <<>>, <<"[WARNING]", "\n">>, <<"[WARNING]", "\n", "[WARNING]", "\n">> }

Titles == { <<"title">>, <<"title", "junk">>, <<>> }

Filenames == { <<"/", "a">>, <<"/", "x", "/", "t">> }

Numbers == { <<"4">>, <<"4", "7">> }

Trailings ==
    { <<>>, <<"junk", "\n", "junk", "\n">>, <<"ESC", "junk">>,
      <<"\n", "junk", "': line ", "9", ", column ", "9", "junk">> }

\* stderr that is not in the format
Unstructured ==
    { <<>>, <<"junk">>, <<"ESC">>, <<"junk", "ERROR! ", "title", "\n", "\n">> \o
                                      Reference(<<"/", "a">>, <<"4">>, <<"7">>),
      <<"ERROR! ", "title", "\n">> \o Reference(<<"/", "a">>, <<"4">>, <<"7">>),
      <<"ERROR! ", "title", "\n", "\n", "The error appears to be in '", "/", "a",
        "': line ", ", column ", "7">> }

ReturnCodes == {0, 1, 2, 4, 12}

Stdouts == { <<>>, <<"junk">>, <<"ESC">> }

\* the processes the parser is applied to
CompletedProcesses ==
    { CompletedProcess(code, out, err) :
        code \in ReturnCodes, out \in Stdouts,
        err \in Unstructured \cup
                { Documented(b, t, f, n, m, g) :
                    b \in Befores, t \in Titles, f \in Filenames,
                    n \in Numbers, m \in Numbers, g \in Trailings } }

\* ------------------------------------------------------------------------
\* The collaborators: what the command line, the file system, find_children,
\* ansible-playbook --syntax-check and the rules collection can answer
\* ------------------------------------------------------------------------

Task(path, type) == [path |-> path, type |-> type]

\* the targets a Runner can be constructed for
RootTargets ==
    { [path |-> <<"a">>, isdir |-> FALSE],
      [path |-> <<".", "/", "a">>, isdir |-> FALSE],
      [path |-> <<"r">>, isdir |-> TRUE],
      [path |-> <<"r", "/", "meta", "/", "main.yml">>, isdir |-> FALSE] }

\* the exclude_paths a Runner can be constructed with
ExcludeChoices == { <<>>, << <<"a">> >>, << <<"~">> >> }

\* the children find_children can report (absolute paths)
ChildOrder ==
    << Task(<<"/", "a">>, "playbook"),
       Task(<<"/", "x", "/", "t">>, "tasks"),
       Task(<<"/", "x", "/", "t">>, "handlers") >>

\* the lists of children find_children can return for a task: a file of
\* tasks or handlers includes nothing or itself, any other task has up to
\* two children
ChildLists(arg) ==
    IF arg.type \in {"tasks", "handlers"}
    THEN {<<>>, <<arg>>}
    ELSE {<<>>, <<ChildOrder[1]>>, <<ChildOrder[1], ChildOrder[2]>>,
          <<ChildOrder[2], ChildOrder[3]>>}

\* an answer of find_children: a list of children, or a MatchError
FindChildrenAnswers(arg) ==
    {[failed |-> TRUE, children |-> <<>>]}
        \cup {[failed |-> FALSE, children |-> cs] : cs \in ChildLists(arg)}

\* the MatchError find_children raises for a task, with the rule that
\* _emit_matches gives it
LoadingFailure(arg) ==
    MatchError(Some(<<"Failed to load or parse file">>), Some(arg.path), 0, None,
               "LoadingFailureRule", <<>>)

\* the results ansible-playbook --syntax-check can have for a path
SyntaxCheckAnswers(path) ==
    { CompletedProcess(0, <<>>, <<>>),
      CompletedProcess(4, <<>>,
          <<"[WARNING]", "\n", "ERROR! ", "title", "\n", "\n",
            "The error appears to be in '">> \o abspath(path)
              \o <<"': line ", "4", ", column ", "7", "junk">>),
      CompletedProcess(1, <<>>, <<"ESC", "junk">> \o path) }

\* the rules collections a Runner can be constructed with: a collection is
\* given by the file types on which its rule reports a finding
RulesCollections == { {}, {"tasks", "handlers"}, {"playbook", "meta", "tasks", "handlers"} }

\* rules.run(file, tags, skip_list)
RulesRun(collection, file) ==
    IF file.type \in collection
    THEN {MatchError(Some(<<"finding">>), Some(file.path), 1, None, "ContentRule", <<>>)}
    ELSE {}

\* ------------------------------------------------------------------------
\* State
\* ------------------------------------------------------------------------

Runners == {"A", "B"}

VARIABLES
    \* the collaborators' answers given so far (they answer a repeated
    \* question the same way)
    fc,              \* find_children: set of [arg, answer]
    sc,              \* ansible-playbook --syntax-check: set of [arg, answer]
    \* the Runner instances
    instances,       \* the Runner instances that were constructed
    rules,           \* self.rules
    playbooks,       \* self.playbooks
    exclude_paths,   \* self.exclude_paths
    iteration,       \* the order in which the Runner's process iterates over sets
    supplied,        \* the checked_files argument of __init__: a set object, or NoSet
    cf,              \* which set object self.checked_files refers to
    checked_files,   \* the set objects
    \* a run() call in progress
    pc,              \* "idle", "emit" (in _emit_matches), "check" (in the file loop)
    files,           \* files
    visited,         \* visited
    pending,         \* what the for loop of _emit_matches still iterates over
    matches,         \* matches
    pos,             \* the position of the file loop in files
    \* what run() calls returned
    runs,            \* the number of run() calls that returned
    result,          \* the value the last run() call returned
    \* history
    syntax_calls,    \* the paths passed to the syntax checker, as a bag
    rules_calls,     \* the paths passed to rules.run, as a bag
    run_log,         \* facts about the current (or last) run() call
    \* a call of the static method _parse_ansible_syntax_check
    process,         \* its argument (None before the call)
    parse_result     \* the list it returned

\* what __init__ sets and run() never changes
config == << instances, rules, exclude_paths, iteration, supplied, cf >>

vars == << fc, sc, config, playbooks, checked_files, pc, files,
           visited, pending, matches, pos, runs, result, syntax_calls,
           rules_calls, run_log, process, parse_result >>

\* the call of the parser on its own
parser == << process, parse_result >>

\* ------------------------------------------------------------------------
\* Runner.__init__
\* ------------------------------------------------------------------------

\* Runner._update_exclude_paths
_update_exclude_paths(paths) ==
    IF paths # <<>>
    THEN LET expanded == expand_paths_vars(paths)
         IN  expanded \o [i \in 1..Len(expanded) |-> abspath(expanded[i])]
    ELSE <<>>

\* self.playbooks after __init__
InitialPlaybooks(target) ==
    IF target.isdir THEN {Task(JoinEmpty(target.path), "role")}
    ELSE IF EndsWith(target.path, MetaSuffix) THEN {Task(target.path, "meta")}
    ELSE {Task(target.path, "playbook")}

\* the set objects: the one the caller holds and the one __init__ makes for
\* a Runner that is given none
NoSet == 0

CallerSet == 1

OwnSet(r) == IF r = "A" THEN 2 ELSE 3

SetObjects == {CallerSet} \cup {OwnSet(r) : r \in Runners}

\* the Runner keeps a copy: self.checked_files = set(checked_files)
InitialCheckedFiles_Copy(r, checked_files_arg) == OwnSet(r)

\* self.checked_files after __init__
InitialCheckedFiles(r, checked_files_arg) ==
    IF checked_files_arg = NoSet THEN OwnSet(r) ELSE checked_files_arg

\* Runner.is_excluded
is_excluded(r, file_path) ==
    \E i \in 1..Len(exclude_paths[r]) : StartsWith(file_path, exclude_paths[r][i])

\* what is recorded about one run() call
NewLog(checked, returned) ==
    [checked_at_start |-> checked,   \* self.checked_files when run() was called
     checked_at_filter |-> {},       \* self.checked_files when files was filtered
     returned_before |-> returned,   \* the Diagnostics earlier run() calls returned
     returned |-> returned,          \* those and the ones this call returned
     expanded |-> EmptyBag,          \* the tasks passed to find_children (a bag
                                     \* that stops counting at AskedMax)
     failed |-> {},                  \* the tasks for which find_children raised
     listed |-> {},                  \* the records appended to files
     examined |-> {},                \* the records the file loop went through
     evaluated |-> {},               \* the records passed to rules.run
     syntax_checked |-> {},          \* the records passed to the syntax checker
     syntax_failed |-> {},           \* the records whose syntax check failed
     syntax_matches |-> {},          \* the Diagnostics parsed from syntax checks
     rules_matches |-> {},           \* the Diagnostics rules.run returned
     produced |-> EmptyBag]          \* every Diagnostic produced, with repetitions

EmptyLog == NewLog({}, {})

\* the state after the Runner instances were constructed: Runner A for
\* targetA and, if both is true, Runner B for targetB, with the caller's
\* set as checked_files when shared is true and with checked_files=None
\* otherwise
Constructed(both, targetA, targetB, shared, paths, collection, orders) ==
    /\ fc = {} /\ sc = {}
    /\ instances = IF both THEN {"A", "B"} ELSE {"A"}
    /\ rules = [r \in Runners |-> collection]
    /\ playbooks = [r \in Runners |->
                       IF r = "A" THEN InitialPlaybooks(targetA)
                       ELSE IF both THEN InitialPlaybooks(targetB) ELSE {}]
    /\ exclude_paths = [r \in Runners |-> _update_exclude_paths(paths)]
    /\ iteration = orders
    /\ supplied = [r \in Runners |-> IF shared THEN CallerSet ELSE NoSet]
    /\ cf = [r \in Runners |-> InitialCheckedFiles(r, supplied[r])]
    /\ checked_files = [o \in SetObjects |-> {}]
    /\ pc = [r \in Runners |-> "idle"]
    /\ files = [r \in Runners |-> <<>>]
    /\ visited = [r \in Runners |-> {}]
    /\ pending = [r \in Runners |-> {}]
    /\ matches = [r \in Runners |-> EmptyBag]
    /\ pos = [r \in Runners |-> 1]
    /\ runs = [r \in Runners |-> 0]
    /\ result = [r \in Runners |-> <<>>]
    /\ syntax_calls = [r \in Runners |-> EmptyBag]
    /\ rules_calls = [r \in Runners |-> EmptyBag]
    /\ run_log = [r \in Runners |-> EmptyLog]
    /\ process = None
    /\ parse_result = <<>>

IterationOrders == {"ascending", "descending"}

\* one Runner instance
Init ==
    \E target \in RootTargets, paths \in ExcludeChoices,
       collection \in RulesCollections, order \in IterationOrders :
        Constructed(FALSE, target, target, FALSE, paths, collection,
                    [r \in Runners |-> order])

\* the targets of two Runner instances
PairTargets == {t \in RootTargets : Len(t.path) = 1}

\* two Runner instances: for any two targets with one checked_files set, or
\* for the same target with a set each
InitPair ==
    \E targetA \in PairTargets, targetB \in PairTargets, shared \in BOOLEAN,
       paths \in ExcludeChoices, collection \in RulesCollections,
       orders \in [Runners -> IterationOrders] :
        /\ ~shared => targetA = targetB
        /\ Constructed(TRUE, targetA, targetB, shared, paths, collection, orders)

\* ------------------------------------------------------------------------
\* Runner.run
\* ------------------------------------------------------------------------

TypeOrder == <<"handlers", "meta", "playbook", "role", "tasks">>

TaskLess(t, u) ==
    IF t.path # u.path THEN StrLess(t.path, u.path)
    ELSE (CHOOSE i \in 1..Len(TypeOrder) : TypeOrder[i] = t.type)
            < (CHOOSE i \in 1..Len(TypeOrder) : TypeOrder[i] = u.type)

\* the order in which a Runner iterates over a set of tasks: the order of
\* their hashes, which is fixed for the process the Runner lives in; the
\* model has two such orders
First(order, S) ==
    CHOOSE y \in S : \A z \in S \ {y} :
        IF order = "ascending" THEN TaskLess(y, z) ELSE TaskLess(z, y)

RECURSIVE Iterate(_, _)
Iterate(order, S) ==
    IF S = {} THEN <<>>
    ELSE <<First(order, S)>> \o Iterate(order, S \ {First(order, S)})

\* the answer of a collaborator: the one it gave before, else any
Answers(memo, arg, possible) ==
    IF \E m \in memo : m.arg = arg
    THEN {m.answer : m \in {x \in memo : x.arg = arg}}
    ELSE possible

Remember(memo, arg, answer) == memo \cup {[arg |-> arg, answer |-> answer]}

\* the record run() builds for a task of self.playbooks
RootFile(playbook) ==
    [path |-> normpath(playbook.path), type |-> playbook.type,
     absolute_directory |-> Some(dirname(playbook.path))]

\* the record find_children returns for a child (no absolute_directory)
ChildFile(child) ==
    [path |-> child.path, type |-> child.type, absolute_directory |-> None]

\* files = [value for n, value in enumerate(files) if value not in files[:n]]
RECURSIVE RemoveDuplicates(_)
RemoveDuplicates(fs) ==
    IF fs = <<>> THEN <<>>
    ELSE LET before == SubSeq(fs, 1, Len(fs) - 1)
         IN  IF fs[Len(fs)] \in Range(before) THEN RemoveDuplicates(before)
             ELSE Append(RemoveDuplicates(before), fs[Len(fs)])

\* files = [x for x in files if x['path'] not in self.checked_files]
RemoveChecked(fs, checked) == SelectSeq(fs, LAMBDA x : x.path \notin checked)

\* roles are listed like the other tasks
Seeds_WithRoles(r) == {pb \in playbooks[r] : ~is_excluded(r, pb.path)}

\* lines 98-100: the tasks of self.playbooks that run() lists itself
Seeds(r) == {pb \in playbooks[r] : ~(is_excluded(r, pb.path) \/ pb.type = "role")}

\* the MatchError is caught and dropped
Caught_Swallowed(answer, arg) == {}

\* lines 157-159: what _emit_matches yields for an answer of find_children
Caught(answer, arg) == IF answer.failed THEN {LoadingFailure(arg)} ELSE {}

\* visited.add(arg) is missing
Visit_Forgotten(seen, arg) == seen

\* line 160
Visit(seen, arg) == seen \cup {arg}

\* the for loop goes over all of self.playbooks
Unvisited_All(all, seen) == all

\* line 150: self.playbooks - visited
Unvisited(all, seen) == all \ seen

\* self.checked_files is not updated
update_Skipped(checked, fs) == checked

\* line 143: self.checked_files.update([x['path'] for x in files])
update(checked, fs) == checked \cup {fs[i].path : i \in 1..Len(fs)}

\* the "continue" of line 134 is active
Evaluated_Continue(run) == run.returncode = 0

\* lines 130-141: rules.run is called whatever the syntax check returned
\* (the "continue" of line 134 is commented out)
Evaluated(run) == TRUE

\* no other Runner is inside run(): the callers are single-threaded
Exclusive(r) == \A o \in Runners \ {r} : pc[o] = "idle"

\* the caller makes at most MaxRuns calls, on the constructed instances in
\* turn, Runner A first
MayCall(r) ==
    /\ r \in instances
    /\ runs["A"] + runs["B"] < MaxRuns
    /\ r = "B" => runs["A"] > runs["B"]
    /\ r = "A" /\ "B" \in instances => runs["A"] = runs["B"]

\* run() is called: lines 97-105, and _emit_matches starts
StartRun(r) ==
    /\ pc[r] = "idle"
    /\ LET o == Iterate(iteration[r], Seeds(r))
       IN  files' = [files EXCEPT ![r] = [i \in 1..Len(o) |-> RootFile(o[i])]]
    /\ visited' = [visited EXCEPT ![r] = {}]
    /\ pending' = [pending EXCEPT ![r] = {}]
    /\ matches' = [matches EXCEPT ![r] = EmptyBag]
    /\ pos' = [pos EXCEPT ![r] = 1]
    /\ pc' = [pc EXCEPT ![r] = "emit"]
    /\ run_log' = [run_log EXCEPT ![r] =
                      [NewLog(checked_files[cf[r]], run_log[r].returned)
                          EXCEPT !.listed = Range(files'[r])]]
    /\ UNCHANGED << fc, sc, config, playbooks, checked_files,
                    runs, result, syntax_calls, rules_calls, parser >>

\* one iteration of the for loop of _emit_matches (lines 150-160); the
\* while test and the set difference are evaluated when the for loop is over
EmitMatch(r) ==
    /\ pc[r] = "emit"
    /\ LET todo == IF pending[r] # {} THEN pending[r]
                   ELSE Unvisited(playbooks[r], visited[r])
           arg == First(iteration[r], todo)
       IN  /\ todo # {}
           /\ \E answer \in Answers(fc, arg, FindChildrenAnswers(arg)) :
              LET kept == SelectSeq(answer.children, LAMBDA c : ~is_excluded(r, c.path))
                  new == [i \in 1..Len(kept) |-> ChildFile(kept[i])]
                  yielded == SetToBag(Caught(answer, arg))
              IN  /\ fc' = Remember(fc, arg, answer)
                  /\ playbooks' = [playbooks EXCEPT ![r] = @ \cup Range(kept)]
                  /\ files' = [files EXCEPT ![r] = @ \o new]
                  /\ matches' = [matches EXCEPT ![r] = union(@, yielded)]
                  /\ visited' = [visited EXCEPT ![r] = Visit(@, arg)]
                  /\ pending' = [pending EXCEPT ![r] = todo \ {arg}]
                  /\ run_log' = [run_log EXCEPT
                        ![r].expanded = IF CopiesIn(arg, @) < AskedMax
                                        THEN @ (+) SetToBag({arg}) ELSE @,
                        ![r].failed = IF answer.failed THEN @ \cup {arg} ELSE @,
                        ![r].listed = @ \cup Range(new),
                        ![r].produced = @ (+) yielded]
    /\ UNCHANGED << sc, config, checked_files, pc, pos, runs,
                    result, syntax_calls, rules_calls, parser >>

\* _emit_matches is exhausted (visited = self.playbooks); lines 106-112
FilterFiles(r) ==
    /\ pc[r] = "emit"
    /\ pending[r] = {}
    /\ visited[r] = playbooks[r]
    /\ files' = [files EXCEPT ![r] =
                    RemoveChecked(RemoveDuplicates(@), checked_files[cf[r]])]
    /\ pc' = [pc EXCEPT ![r] = "check"]
    /\ run_log' = [run_log EXCEPT ![r].checked_at_filter = checked_files[cf[r]]]
    /\ UNCHANGED << fc, sc, config, playbooks, checked_files,
                    visited, pending, matches, pos, runs, result, syntax_calls,
                    rules_calls, parser >>

\* one iteration of the file loop (lines 113-141)
ExamineFile(r) ==
    /\ pc[r] = "check"
    /\ pos[r] <= Len(files[r])
    /\ LET file == files[r][pos[r]]
           syntax == file.type = "playbook"
       IN  \E run \in (IF syntax THEN Answers(sc, file.path, SyntaxCheckAnswers(file.path))
                       ELSE {CompletedProcess(0, <<>>, <<>>)}) :
              LET found == IF Evaluated(run) THEN RulesRun(rules[r], file) ELSE {}
                  parsed == IF run.returncode # 0
                            THEN SetToBag(Range(_parse_ansible_syntax_check(run)))
                            ELSE EmptyBag
              IN  /\ sc' = IF syntax THEN Remember(sc, file.path, run) ELSE sc
                  /\ matches' = [matches EXCEPT ![r] =
                                    union(union(@, parsed), SetToBag(found))]
                  /\ syntax_calls' = [syntax_calls EXCEPT ![r] =
                        IF syntax THEN @ (+) SetToBag({file.path}) ELSE @]
                  /\ rules_calls' = [rules_calls EXCEPT ![r] =
                        IF Evaluated(run) THEN @ (+) SetToBag({file.path}) ELSE @]
                  /\ run_log' = [run_log EXCEPT
                        ![r].examined = @ \cup {file},
                        ![r].evaluated = IF Evaluated(run) THEN @ \cup {file} ELSE @,
                        ![r].syntax_checked = IF syntax THEN @ \cup {file} ELSE @,
                        ![r].syntax_failed = IF syntax /\ run.returncode # 0
                                             THEN @ \cup {file} ELSE @,
                        ![r].syntax_matches = @ \cup BagToSet(parsed),
                        ![r].rules_matches = @ \cup found,
                        ![r].produced = @ (+) parsed (+) SetToBag(found)]
    /\ pos' = [pos EXCEPT ![r] = @ + 1]
    /\ UNCHANGED << fc, config, playbooks, checked_files, pc,
                    files, visited, pending, runs, result, parser >>

\* the file loop is over: lines 142-145, run() returns
Return(r) ==
    /\ pc[r] = "check"
    /\ pos[r] > Len(files[r])
    /\ checked_files' = [checked_files EXCEPT ![cf[r]] = update(@, files[r])]
    /\ \E s \in sorted(matches[r]) : result' = [result EXCEPT ![r] = s]
    /\ runs' = [runs EXCEPT ![r] = @ + 1]
    /\ pc' = [pc EXCEPT ![r] = "idle"]
    /\ run_log' = [run_log EXCEPT ![r].returned = @ \cup Range(result'[r])]
    /\ UNCHANGED << fc, sc, config, playbooks, files, visited,
                    pending, matches, pos, syntax_calls, rules_calls, parser >>

Next ==
    \E r \in Runners :
        \/ MayCall(r) /\ Exclusive(r) /\ StartRun(r)
        \/ EmitMatch(r)
        \/ FilterFiles(r)
        \/ ExamineFile(r)
        \/ Return(r)

Spec == Init /\ [][Next]_vars

PairSpec == InitPair /\ [][Next]_vars

\* a step of a run() call in progress
Step(r) == EmitMatch(r) \/ FilterFiles(r) \/ ExamineFile(r) \/ Return(r)

\* a run() call that was started goes on: nothing suspends the thread
Fairness == \A r \in Runners : WF_vars(Step(r))

\* one Runner instance without exclusions, for termination
InitLive ==
    \E target \in RootTargets, collection \in RulesCollections :
        Constructed(FALSE, target, target, FALSE, <<>>, collection,
                    [r \in Runners |-> "ascending"])

LiveSpec == InitLive /\ [][Next]_vars /\ Fairness

\* two Runner instances with the caller's checked_files set, without
\* exclusions, and rules with a finding for every file
InitShared ==
    \E targetA \in PairTargets, targetB \in PairTargets :
        Constructed(TRUE, targetA, targetB, TRUE, <<>>,
                    {"playbook", "meta", "tasks", "handlers"},
                    [r \in Runners |-> "ascending"])

\* the run() calls of two threads, one call for each Runner: a call may
\* start while the other Runner is inside run()
NextInterleaved ==
    \E r \in Runners :
        \/ r \in instances /\ runs[r] < 1 /\ StartRun(r)
        \/ EmitMatch(r)
        \/ FilterFiles(r)
        \/ ExamineFile(r)
        \/ Return(r)

InterleavedSpec == InitShared /\ [][NextInterleaved]_vars

\* Runner._parse_ansible_syntax_check is called on a process
Parse ==
    /\ process = None
    /\ \E run \in CompletedProcesses :
          /\ process' = Some(run)
          /\ parse_result' = _parse_ansible_syntax_check(run)
    /\ UNCHANGED << fc, sc, config, playbooks, checked_files, pc, files,
                    visited, pending, matches, pos, runs, result, syntax_calls,
                    rules_calls, run_log >>

\* the parser on its own: no Runner is needed for a static method
InitParser ==
    LET target == [path |-> <<"a">>, isdir |-> FALSE]
    IN  Constructed(FALSE, target, target, FALSE, <<>>, {},
                    [r \in Runners |-> "ascending"])

ParserSpec == InitParser /\ [][Parse]_vars

\* ------------------------------------------------------------------------
\* Properties
\* ------------------------------------------------------------------------

Returned(r) == pc[r] = "idle" /\ runs[r] > 0

\* the files of a run() call that the syntax checker fails or the rules
\* collection has a finding for
SyntaxFails(file) ==
    /\ file.type = "playbook"
    /\ \E m \in sc : m.arg = file.path /\ m.answer.returncode # 0

HasFinding(r, file) == RulesRun(rules[r], file) # {} \/ SyntaxFails(file)

\* C1: over the run() calls on one Runner no path is passed twice to the
\* syntax checker, no path is passed twice to the rules collection, and a
\* path that is in checked_files when run() starts is passed to neither.
C1_NoPathCheckedTwice ==
    \A r \in Runners :
        /\ \A p \in BagToSet(syntax_calls[r]) : CopiesIn(p, syntax_calls[r]) = 1
        /\ \A p \in BagToSet(rules_calls[r]) : CopiesIn(p, rules_calls[r]) = 1
        /\ \A f \in run_log[r].examined : f.path \notin run_log[r].checked_at_start

\* C2: a file whose path starts with a registered exclusion prefix is not
\* added by discovery to the working-file list or to self.playbooks and is
\* passed neither to the syntax checker nor to the rules collection.
C2_ExcludedNeverProcessed ==
    \A r \in Runners :
        /\ \A f \in run_log[r].listed :
              f.absolute_directory = None => ~is_excluded(r, f.path)
        /\ \A t \in playbooks[r] \cap Range(ChildOrder) : ~is_excluded(r, t.path)
        /\ \A p \in BagToSet(syntax_calls[r]) : ~is_excluded(r, p)
        /\ \A p \in BagToSet(rules_calls[r]) : ~is_excluded(r, p)

\* C3: no Diagnostic that a run() call returned is returned again by a
\* later run() call on the same Runner.
C3_NothingReportedAgain ==
    \A r \in Runners :
        Returned(r) => Range(result[r]) \cap run_log[r].returned_before = {}

\* C4: when find_children raises for a task, the run() call still returns,
\* its result holds the loading-failure Diagnostic of that task, every task
\* of self.playbooks was expanded and every listed file that was not
\* checked before was passed to the rules collection.
C4_LoadingFailureRecovered ==
    \A r \in Runners :
        Returned(r) /\ run_log[r].failed # {} =>
            /\ \A t \in run_log[r].failed :
                  /\ LoadingFailure(t) \in Range(result[r])
                  /\ LoadingFailure(t).rule = "LoadingFailureRule"
            /\ BagToSet(run_log[r].expanded) = playbooks[r]
            /\ \A f \in run_log[r].listed :
                  f.path \in run_log[r].checked_at_filter \/ f \in run_log[r].evaluated

C4_Witness ==
    \E r \in Runners :
        /\ Returned(r)
        /\ \E t \in run_log[r].failed :
              /\ playbooks[r] # {t}
              /\ \E f \in run_log[r].evaluated : f.path # normpath(t.path) /\ f.path # t.path

\* C5: the discovery loop ends, also when a task is its own descendant:
\* a run() call in _emit_matches gets to visited = self.playbooks, and
\* run() returns.
C5_DiscoveryTerminates ==
    \A r \in Runners :
        /\ [](pc[r] = "check" => visited[r] = playbooks[r])
        /\ (pc[r] = "emit") ~> (pc[r] = "idle")

\* a task that find_children reported as a child of itself was expanded and
\* the loop is over
C5_Witness ==
    \E r \in Runners :
        /\ pc[r] = "check"
        /\ \E m \in fc : m.arg \in Range(m.answer.children) /\ m.arg \in visited[r]

\* C6: a playbook whose syntax check fails is still passed to the rules
\* collection, and the result of run() holds the Diagnostic parsed from the
\* syntax check and every Diagnostic the rules collection returned for it.
C6_RulesRunAfterSyntaxFailure ==
    \A r \in Runners :
        /\ \A f \in run_log[r].syntax_checked :
              f \in run_log[r].evaluated /\ CopiesIn(f.path, rules_calls[r]) > 0
        /\ Returned(r) =>
              \A f \in run_log[r].syntax_failed :
                  /\ \A m \in sc : m.arg = f.path =>
                        Range(_parse_ansible_syntax_check(m.answer)) \subseteq Range(result[r])
                  /\ RulesRun(rules[r], f) \subseteq Range(result[r])

C6_Witness ==
    \E r \in Runners :
        /\ Returned(r)
        /\ \E f \in run_log[r].syntax_failed : RulesRun(rules[r], f) # {}
        /\ Len(result[r]) >= 2

\* C7: a checked_files set given to two Runners is one object: no path that
\* one of them passed to the syntax checker or to the rules collection in a
\* completed run() is passed to either by the other, and what a Runner
\* processed is in the caller's set when its run() has returned.
C7_CheckedFilesShared ==
    supplied["A"] = CallerSet /\ supplied["B"] = CallerSet =>
        /\ BagToSet(syntax_calls["A"]) \cap BagToSet(syntax_calls["B"]) = {}
        /\ BagToSet(rules_calls["A"]) \cap BagToSet(rules_calls["B"]) = {}
        /\ \A r \in Runners :
              Returned(r) =>
                  BagToSet(rules_calls[r]) \cup BagToSet(syntax_calls[r])
                      \subseteq checked_files[CallerSet]

\* Runner B listed a file that Runner A had processed, and processed others
C7_Witness ==
    /\ supplied["A"] = CallerSet /\ supplied["B"] = CallerSet
    /\ Returned("B")
    /\ \E f \in run_log["B"].listed : f.path \in BagToSet(rules_calls["A"])
    /\ rules_calls["B"] # EmptyBag

\* C8 as stated: a run() call returns a Diagnostic whenever discovery fails
\* or a listed file has a syntax-check failure or a rule finding.
C8_EmptyOnlyIfClean ==
    \A r \in Runners :
        Returned(r) /\ (run_log[r].failed # {}
                          \/ \E f \in run_log[r].listed : HasFinding(r, f))
            => result[r] # <<>>

\* C8 as amended: run() returns an empty sequence exactly when, in that
\* call, find_children raised for no task and no file that the call examined
\* (listed, not excluded, not in checked_files) has a syntax-check failure or
\* a rule finding.
C8_EmptyIffNothingFound ==
    \A r \in Runners :
        Returned(r) =>
            (result[r] = <<>> <=>
                /\ run_log[r].failed = {}
                /\ \A f \in run_log[r].examined : ~HasFinding(r, f))

C8_Witness ==
    \E r \in Runners :
        /\ Returned(r)
        /\ run_log[r].failed = {}
        /\ \E f \in run_log[r].examined : HasFinding(r, f)
        /\ result[r] # <<>>

\* C9: two fresh Runners for the same target, with the same answers of the
\* collaborators, return the same sequence.
C9_Deterministic ==
    /\ instances = Runners
    /\ supplied["A"] = NoSet /\ supplied["B"] = NoSet
    /\ Returned("A") /\ runs["A"] = 1
    /\ Returned("B") /\ runs["B"] = 1
    => result["A"] = result["B"]

\* C10: the sequence run() returns holds no Diagnostic twice, and holds
\* every Diagnostic the call produced.
C10_NoDuplicates ==
    \A r \in Runners :
        /\ \A i, j \in 1..Len(result[r]) : i # j => result[r][i] # result[r][j]
        /\ Returned(r) => BagToSet(run_log[r].produced) = Range(result[r])

\* a Diagnostic was produced twice in the call
C10_Witness ==
    \E r \in Runners :
        /\ Returned(r)
        /\ \E d \in BagToSet(run_log[r].produced) : CopiesIn(d, run_log[r].produced) >= 2

\* C11: the sequence run() returns is in ascending order of (filename, line,
\* column, rule identifier, message), None first, whatever the order in
\* which the Diagnostics were added to matches.
C11_ResultSorted ==
    \A r \in Runners :
        \A i, j \in 1..Len(result[r]) :
            i < j => ~MatchErrorLess(result[r][j], result[r][i])

\* three Diagnostics with three filenames were returned, and the one of the
\* file that was examined first is the last
C11_Witness ==
    \E r \in Runners :
        /\ Returned(r)
        /\ Len(result[r]) = 3
        /\ OptStrLess(result[r][1].filename, result[r][2].filename)
        /\ OptStrLess(result[r][2].filename, result[r][3].filename)
        /\ files[r] # <<>>
        /\ result[r][3].filename = Some(files[r][1].path)

\* the parser was called
Parsed == process # None

\* what the regular expression finds in the stderr of the process
Found == ReSearch(strip_ansi_escape(process[1].stderr))

\* C12: the parser returns no Diagnostic for exit code 0 and one Diagnostic
\* for every other exit code, whatever the streams hold.
C12_OnePerFailure ==
    Parsed =>
        IF process[1].returncode = 0 THEN parse_result = <<>>
        ELSE Len(parse_result) = 1

\* a failure with empty streams
C12_Witness ==
    /\ Parsed
    /\ process[1].returncode # 0
    /\ process[1].stderr = <<>> /\ process[1].stdout = <<>>
    /\ Len(parse_result) = 1

\* C13: exit code 4 gives the rule of the syntax check, every other
\* non-zero exit code gives the runtime-error rule, whether or not stderr
\* has the expected format.
C13_RuleByExitCode ==
    Parsed /\ process[1].returncode # 0 =>
        /\ process[1].returncode = 4 => parse_result[1].rule = "AnsibleSyntaxCheckRule"
        /\ process[1].returncode # 4 => parse_result[1].rule = "RuntimeErrorRule"

\* stderr has the expected format and the exit code is not 4
C13_Witness ==
    /\ Parsed
    /\ process[1].returncode = 12
    /\ Found # None
    /\ parse_result[1].rule = "RuntimeErrorRule"

\* the message for an exit code that is not 4 and stderr without a title
Synthesized == Some(UnexpectedErrorCode \o str(process[1].returncode))

\* the Diagnostic of an exit code that is neither 0 nor 4 with stderr that
\* is not in the expected format
Fallback ==
    Parsed /\ process[1].returncode \notin {0, 4} /\ Found = None =>
        /\ parse_result[1].linenumber = 0
        /\ parse_result[1].column = None
        /\ parse_result[1].filename = None
        /\ parse_result[1].message = Synthesized

\* C14 as stated: the fallback Diagnostic has line 0, no column, no filename
\* and the synthesized message with the exit code, and a title captured from
\* stderr is never replaced by the synthesized message.
C14_CapturedNeverReplaced ==
    /\ Fallback
    /\ Parsed /\ process[1].returncode # 0 /\ Found # None =>
          parse_result[1].message = Some(Found[1].title)

\* C14 as amended: the fallback Diagnostic is as stated; a captured title
\* that is not empty is never replaced, and an empty captured title is
\* replaced by the synthesized message unless the exit code is 4.
C14_NonEmptyCapturedKept ==
    /\ Fallback
    /\ Parsed /\ process[1].returncode # 0 /\ Found # None =>
          parse_result[1].message =
              IF Found[1].title = <<>> /\ process[1].returncode # 4
              THEN Synthesized ELSE Some(Found[1].title)

\* a title was captured for an exit code that is not 4, and kept
C14_Witness ==
    /\ Parsed
    /\ process[1].returncode = 1
    /\ Found # None
    /\ Found[1].title # <<>>
    /\ parse_result[1].message = Some(Found[1].title)

\* C15: for stderr made of lines before the error, "ERROR! <title>", an
\* empty line, the reference to <filename>, line N, column M, and any text
\* after it, the Diagnostic has that title, filename, line and column.
C15_StructuredExtraction ==
    Parsed /\ process[1].returncode # 0 =>
        \A b \in Befores, t \in Titles, f \in Filenames, n \in Numbers,
           m \in Numbers, g \in Trailings :
            process[1].stderr = Documented(b, t, f, n, m, g) =>
                /\ parse_result[1].message = Some(t)
                /\ parse_result[1].filename = Some(f)
                /\ parse_result[1].linenumber = int(n)
                /\ parse_result[1].column = Some(int(m))

\* C16: in one run() call find_children is called once for every task of
\* self.playbooks, also for a task that is reported again as a child, and
\* visited is a subset of self.playbooks.
C16_ExpandedOnce ==
    \A r \in Runners :
        /\ visited[r] \subseteq playbooks[r]
        /\ \A t \in BagToSet(run_log[r].expanded) : CopiesIn(t, run_log[r].expanded) = 1
        /\ pc[r] = "check" \/ Returned(r) => BagToSet(run_log[r].expanded) = playbooks[r]

\* two tasks reported the same child
C16_Witness ==
    \E r \in Runners :
        /\ Returned(r)
        /\ \E m, o \in fc :
              /\ m.arg # o.arg
              /\ {m.arg, o.arg} \subseteq BagToSet(run_log[r].expanded)
              /\ \E c \in Range(m.answer.children) \cap Range(o.answer.children) :
                    c \in BagToSet(run_log[r].expanded) /\ c \notin {m.arg, o.arg}

\* C17: find_children is not called for a root task whose path is
\* excluded, and when every root is excluded nothing is added to
\* self.playbooks and no file is passed to the syntax checker or to the
\* rules collection.
C17_ExcludedRootNotExpanded ==
    \A r \in Runners :
        /\ \A t \in playbooks[r] :
              is_excluded(r, t.path) => t \notin BagToSet(run_log[r].expanded)
        /\ (\E t \in playbooks[r] : is_excluded(r, t.path)) =>
              /\ Cardinality(playbooks[r]) <= 1
              /\ syntax_calls[r] = EmptyBag
              /\ rules_calls[r] = EmptyBag

\* C18: a role root is passed neither to the syntax checker nor to the rules
\* collection and is not added to checked_files, the files discovery listed
\* for it are passed to the rules collection, and only playbooks are passed
\* to the syntax checker.
C18_RoleRootNotChecked ==
    \A r \in Runners :
        /\ \A t \in playbooks[r] :
              t.type = "role" =>
                  /\ {t.path, normpath(t.path)} \cap
                        (BagToSet(syntax_calls[r]) \cup BagToSet(rules_calls[r])
                            \cup checked_files[cf[r]]) = {}
                  /\ Returned(r) =>
                        \A f \in run_log[r].listed : CopiesIn(f.path, rules_calls[r]) >= 1
        /\ \A f \in run_log[r].syntax_checked : f.type = "playbook"

\* the child of a role root was passed to the rules collection
C18_Witness ==
    \E r \in Runners :
        /\ Returned(r)
        /\ \E t \in playbooks[r] :
              /\ t.type = "role"
              /\ \E m \in fc : m.arg = t /\ Len(m.answer.children) = 2
        /\ Cardinality(BagToSet(rules_calls[r])) >= 1
        /\ \E f \in run_log[r].evaluated : f.type # "playbook"

\* C19: a file for whose task find_children raised is processed like any
\* other: if it is listed and not yet checked, it is syntax-checked when it
\* is a playbook and passed to the rules collection in that run() call;
\* its path is in checked_files when run() returns; its task is visited and
\* was expanded once.
C19_FailingFileProcessed ==
    \A r \in Runners :
        Returned(r) =>
            \A t \in run_log[r].failed :
                /\ t \in visited[r]
                /\ CopiesIn(t, run_log[r].expanded) = 1
                /\ \A f \in run_log[r].listed :
                      f = RootFile(t) \/ f = ChildFile(t) =>
                          /\ f.path \in checked_files[cf[r]]
                          /\ f.path \notin run_log[r].checked_at_filter =>
                                /\ f \in run_log[r].evaluated
                                /\ f.type = "playbook" => f \in run_log[r].syntax_checked

\* the root playbook failed to load and was syntax-checked and evaluated
C19_Witness ==
    \E r \in Runners :
        /\ Returned(r) /\ runs[r] = 1
        /\ \E t \in run_log[r].failed :
              /\ t.type = "playbook"
              /\ RootFile(t) \in run_log[r].evaluated \cap run_log[r].syntax_checked
              /\ RootFile(t).path \in checked_files[cf[r]]

\* C20: two Runners with the caller's checked_files set whose run() calls
\* interleave do not both pass the same path to the rules collection.
C20_NoPathEvaluatedByBoth ==
    supplied["A"] = CallerSet /\ supplied["B"] = CallerSet =>
        \A p \in BagToSet(rules_calls["A"]) : p \notin BagToSet(rules_calls["B"])

=============================================================================
